---- MODULE Spec2Model ----
(***************************************************************************)
(* Model of the document text-extraction pipeline of Noto-Backend:         *)
(* TextExtractionService (services/textExtraction.js) and OCRService       *)
(* (services/ocrService.js).  One behaviour is one call of an entry point  *)
(* (extractTextFromBuffer, or tryOCRExtraction called directly), cut at    *)
(* its suspension points (await).                                          *)
(*                                                                         *)
(* Strings are kept structured: a diagnostic string is a record naming its *)
(* template and the values interpolated into it; an error message is the   *)
(* sequence of its parts; OCR text is a sequence of tokens (JsStr).        *)
(***************************************************************************)
EXTENDS Integers, Sequences, FiniteSets, TLC

(* ---------------------------- bounds ----------------------------------- *)
MaxPages == 5            \* largest page count of an input PDF

(* ------------------------ program constants ---------------------------- *)
maxFileSize == 1048576
\* a page ceiling of 2 pages per chunk
MaxPagesPerChunkOfTwo == 3 - 1
MAX_PAGES_PER_CHUNK == 3
\* a low-text threshold of 50 characters
LowTextThresholdOfFifty == 100 - 50
LowTextThreshold == 100
\* a minimum of 15 characters of OCR text
MinOCRTextLengthOfFifteen == 10 + 5
MinOCRTextLength == 10
LocalOCRMaxPages == 3

(* ------------------------- input domains ------------------------------- *)
FileNames == {"notes.pdf", "scan.jpg"}
PDF == "application/pdf"
DOC == "application/msword"
DOCX == "application/vnd.openxmlformats-officedocument.wordprocessingml.document"
PPT == "application/vnd.ms-powerpoint"
PPTX == "application/vnd.openxmlformats-officedocument.presentationml.presentation"
TXT == "text/plain"
JPEG == "image/jpeg"
BufferLengths == {20, 50, maxFileSize, maxFileSize + 1, 3000000}
(* ------------------------------ JsStr ---------------------------------- *)
\* A string is a sequence of tokens: "a" (a letter), " " and "nl"
\* (whitespace), "P1".."P9" (the 14 characters `--- Page N ---`) and
\* "NoReadable" (the standard message of parseOCRResponse).
PageMarks == <<"P1", "P2", "P3", "P4", "P5", "P6", "P7", "P8", "P9">>
NoReadableText == <<"NoReadable">>

\* \s of a regular expression and of trim(): space, \n, \r
IsWs(tok) == tok \in {" ", "nl", "cr"}

Width(tok) ==
    IF tok \in {"a", " ", "nl", "cr"} THEN 1
    ELSE IF tok = "NoReadable" THEN 123
    ELSE IF tok = "w15" THEN 15
    ELSE IF tok = "w98" THEN 98
    ELSE IF tok = "DocumentTitle" THEN 16
    ELSE 14

RECURSIVE JsLength(_)
JsLength(s) == IF s = <<>> THEN 0 ELSE Width(Head(s)) + JsLength(Tail(s))

RECURSIVE TrimStart(_)
TrimStart(s) ==
    IF s = <<>> THEN s
    ELSE IF IsWs(Head(s)) THEN TrimStart(Tail(s)) ELSE s

RECURSIVE TrimEnd(_)
TrimEnd(s) ==
    IF s = <<>> THEN s
    ELSE IF IsWs(s[Len(s)]) THEN TrimEnd(SubSeq(s, 1, Len(s) - 1)) ELSE s

Trim(s) == TrimEnd(TrimStart(s))

RECURSIVE ReplaceCRLF(_)
\* .replace(/\r\n/g, '\n')
ReplaceCRLF(s) ==
    IF s = <<>> THEN s
    ELSE IF Len(s) >= 2 /\ s[1] = "cr" /\ s[2] = "nl"
      THEN <<"nl">> \o ReplaceCRLF(SubSeq(s, 3, Len(s)))
      ELSE <<Head(s)>> \o ReplaceCRLF(Tail(s))

RECURSIVE NewlineRun(_)
\* how many "nl" the text starts with
NewlineRun(s) ==
    IF s # <<>> /\ Head(s) = "nl" THEN 1 + NewlineRun(Tail(s)) ELSE 0

RECURSIVE CollapseNewlines(_)
\* .replace(/\n{3,}/g, '\n\n')
CollapseNewlines(s) ==
    IF s = <<>> THEN s
    ELSE IF Head(s) = "nl"
      THEN LET k == NewlineRun(s)
           IN  (IF k >= 3 THEN <<"nl", "nl">> ELSE SubSeq(s, 1, k))
               \o CollapseNewlines(SubSeq(s, k + 1, Len(s)))
      ELSE <<Head(s)>> \o CollapseNewlines(Tail(s))

RECURSIVE CollapseWhitespace(_)
\* .replace(/\s+/g, ' ')
CollapseWhitespace(s) ==
    IF s = <<>> THEN s
    ELSE IF IsWs(Head(s))
      THEN <<" ">> \o CollapseWhitespace(TrimStart(s))
      ELSE <<Head(s)>> \o CollapseWhitespace(Tail(s))

\* cleanText of extractFromPDF
normalizePDF(text) == Trim(CollapseWhitespace(CollapseNewlines(ReplaceCRLF(text))))
\* cleanText of extractFromPowerPoint
normalizePowerPoint(data) == Trim(CollapseWhitespace(CollapseNewlines(ReplaceCRLF(data))))
\* cleanText of extractFromWord
normalizeWord(text) == Trim(CollapseNewlines(ReplaceCRLF(text)))

(* ------------------------ errors and outcomes -------------------------- *)
\* A thrown value: an Error object with a message and (for axios errors)
\* the HTTP status of error.response, or a value without properties (null).
NoStatus == 0
Err(msg) == [isObj |-> TRUE, message |-> msg, status |-> NoStatus]
NoError == [isObj |-> FALSE, message |-> <<>>, status |-> NoStatus]
\* reading `.message` (or `.response`) of null
TypeErrorOnNull == Err(<<"Cannot read properties of null">>)

NoVal == [kind |-> "none"]
Ret(v) == [tag |-> "ret", val |-> v, err |-> Err(<<>>)]
Throw(e) == [tag |-> "throw", val |-> NoVal, err |-> e]

(* ------------------------- remote OCR provider ------------------------- *)
\* response.data of OCR.space: the processing-level error flag, the overall
\* exit code and the per-page results.
Response(errored, errorMessage, exitCode, results) ==
    [IsErroredOnProcessing |-> errored, ErrorMessage |-> errorMessage,
     OCRExitCode |-> exitCode, ParsedResults |-> results]
PageResult(code, text) == [FileParseExitCode |-> code, ParsedText |-> text]

TenLetters == <<"a", "a", "a", "a", "a", "a", "a", "a", "a", "a">>

\* the responses the provider gives in the pipeline specification
PipelineResponses ==
    { Response(TRUE, "E101: Timed out waiting for results", 3, <<>>),
      Response(FALSE, "", 4, <<>>),
      Response(FALSE, "", 1, <<PageResult(1, TenLetters)>>),
      Response(FALSE, "", 2, <<PageResult(0, <<>>)>>) }

\* what axios.post settles with: a timeout (no response), a non-2xx status,
\* or a 2xx response carrying data
TransportOutcomes ==
    {[kind |-> "timeout", status |-> NoStatus, data |-> Response(FALSE, "", 0, <<>>)]}
    \cup {[kind |-> "http", status |-> c, data |-> Response(FALSE, "", 0, <<>>)] : c \in {429, 403}}
    \cup {[kind |-> "response", status |-> 200, data |-> d] : d \in PipelineResponses}

RECURSIVE PagesTextKeepFailed(_, _)
\* PagesText that also writes a marker for a page whose parse failed
PagesTextKeepFailed(results, i) ==
    IF i > Len(results) THEN <<>>
    ELSE <<PageMarks[i], "nl">>
         \o (IF results[i].FileParseExitCode = 1 THEN results[i].ParsedText ELSE <<>>)
         \o <<"nl", "nl">>
         \o PagesTextKeepFailed(results, i + 1)

RECURSIVE PagesText(_, _)
\* the loop of parseOCRResponse over ParsedResults[i-1 ..]
PagesText(results, i) ==
    IF i > Len(results) THEN <<>>
    ELSE (IF results[i].FileParseExitCode = 1
            THEN <<PageMarks[i], "nl">> \o results[i].ParsedText \o <<"nl", "nl">>
            ELSE <<>>)
         \o PagesText(results, i + 1)

\* parseOCRResponse that accepts only the overall exit code 1
parseOCRResponseExitOneOnly(data) ==
    IF data.IsErroredOnProcessing
      THEN Throw(Err(<<IF data.ErrorMessage # "" THEN data.ErrorMessage
                                                ELSE "OCR processing failed">>))
    ELSE IF data.OCRExitCode # 1
      THEN Throw(Err(<<"OCR failed with exit code: ", ToString(data.OCRExitCode)>>))
    ELSE LET extractedText == Trim(PagesText(data.ParsedResults, 1))
         IN  IF JsLength(extractedText) < MinOCRTextLength
               THEN Ret(NoReadableText)
               ELSE Ret(extractedText)

\* parseOCRResponse that treats an empty result as an error
parseOCRResponseThrowOnEmpty(data) ==
    IF data.IsErroredOnProcessing
      THEN Throw(Err(<<IF data.ErrorMessage # "" THEN data.ErrorMessage
                                                ELSE "OCR processing failed">>))
    ELSE IF data.OCRExitCode # 1 /\ data.OCRExitCode # 2
      THEN Throw(Err(<<"OCR failed with exit code: ", ToString(data.OCRExitCode)>>))
    ELSE LET extractedText == Trim(PagesText(data.ParsedResults, 1))
         IN  IF JsLength(extractedText) < MinOCRTextLength
               THEN Throw(Err(<<"No readable text found">>))
               ELSE Ret(extractedText)

parseOCRResponse(data) ==
    IF data.IsErroredOnProcessing
      THEN Throw(Err(<<IF data.ErrorMessage # "" THEN data.ErrorMessage
                                                ELSE "OCR processing failed">>))
    ELSE IF data.OCRExitCode # 1 /\ data.OCRExitCode # 2
      THEN Throw(Err(<<"OCR failed with exit code: ", ToString(data.OCRExitCode)>>))
    ELSE LET extractedText == Trim(PagesText(data.ParsedResults, 1))
         IN  IF JsLength(extractedText) < MinOCRTextLength
               THEN Ret(NoReadableText)
               ELSE Ret(extractedText)

\* the catch block of performOCR
performOCRCatch(error) ==
    IF error.status = 429
      THEN Throw(Err(<<"OCR API rate limit reached. Please try again later.">>))
      ELSE Throw(Err(<<"OCR API error: ">> \o error.message))

\* performOCR: one axios.post, then parseOCRResponse
performOCR(t) ==
    LET r == IF t.kind = "timeout" THEN Throw(Err(<<"timeout of 30000ms exceeded">>))
             ELSE IF t.kind = "http" THEN Throw([isObj |-> TRUE, status |-> t.status,
                          message |-> <<"Request failed with status code ",
                                        ToString(t.status)>>])
             ELSE parseOCRResponse(t.data)
    IN  IF r.tag = "throw" THEN performOCRCatch(r.err) ELSE r

\* an image test that knows PNG only
isImageTypePngOnly(m) == m = "image/png"

\* mimeType.startsWith('image/')
isImageType(m) == m \in {JPEG}

Min(a, b) == IF a < b THEN a ELSE b
\* pagesBySize with the 900 KB budget divided by a page size in bytes
pagesBySizeInBytes(length, pages) == (900 * pages) \div length

\* Math.floor(900 / ((length / 1024) / totalPages)); 0 pages give 900/Infinity = 0
\* Math.floor(900 / avgSizePerPage), avgSizePerPage in KB
pagesBySize(length, pages) == (900 * 1024 * pages) \div length

\* maxPagesPerChunkOf without the 3-page ceiling of the provider
maxPagesPerChunkBySizeOnly(length, pages) ==
    IF 1 > pagesBySize(length, pages) THEN 1 ELSE pagesBySize(length, pages)

maxPagesPerChunkOf(length, pages) ==
    Min(MAX_PAGES_PER_CHUNK,
        IF 1 > pagesBySize(length, pages) THEN 1 ELSE pagesBySize(length, pages))

(* --------------------------- result strings ---------------------------- *)
\* `Unable to extract text from "${fileName}". Error: ${error.message}`
Unable(f, msg) == [kind |-> "unable", fileName |-> f, message |-> msg]
OcrText(text) == [kind |-> "ocrText", text |-> text]
\* `\n=== Pages a-b ===\n${chunkText}`
PagesEntry(a, b, text) == [kind |-> "pages", a |-> a, b |-> b, text |-> text]
(* ------------------------------- state --------------------------------- *)
VARIABLES
    entry,             \* the entry point this behaviour calls
    documentType, mimeType, fileName,
    buffer,            \* the (possibly reassigned) buffer argument
    pc,                \* position of the call
    totalPages, maxPagesPerChunk, startPage,   \* locals of splitAndProcessPDF
    chunk,             \* the chunk built by the current loop iteration
    allPageTexts,      \* allPageTexts of splitAndProcessPDF
    requests,          \* every axios.post to the OCR provider, in order
    compressions,      \* number of sharp recompressions run
    result,            \* the string the entry point returned
    escaped,           \* TRUE when the entry point threw instead
    caught,            \* the error the catch of extractTextFromBuffer received
    built,             \* every chunk the loop built: [start, end) and its size
    now,               \* Date.now()
    files,             \* the paths that exist on disk
    created,           \* every path this call created
    tempPath,          \* tempPath of extractFromPDF / extractFromPowerPoint
    pdfPath, maxPages, pageNum, allText, imagePath,   \* tryOCRExtraction
    pageLog,           \* how each page of the loop of tryOCRExtraction ended
    fileRecord,        \* the File document uploadMaterial saves after the call
    data,              \* what the library call of the extractor settled with
    \* --- parseOCRResponse applied to one response (SpecParse)
    response,          \* response.data handed to parseOCRResponse
    parsed,            \* what parseOCRResponse returned or threw
    \* --- the whitespace normalization of the extractors (SpecNorm)
    extractor,         \* whose normalization: "pdf", "powerpoint" or "word"
    rawText,           \* the text handed to the first normalization
    passes,            \* the text after each normalization pass
    \* --- extractFromPDF from line 271 on, the fallback's outcome given (SpecPdfTail)
    extractedText,     \* the text gathered from data.pages
    pageCount,         \* data.pages.length
    title,             \* data.meta.info.Title when set and not the fileName
    ocrOutcome,        \* what tryOCRExtraction settles with
    finalText,         \* what extractFromPDF returns
    \* --- two concurrent calls sharing os.tmpdir() (SpecConc)
    calls,             \* the locals of each call
    disk,              \* the files in os.tmpdir() and who wrote them
    clock,             \* Date.now()
    touched,           \* accesses of a call to a file another call created
    \* --- uploadMaterial requests of one user (SpecUpload)
    approvedFiles,     \* File documents of the user with moderation.approved
    uploads,           \* each request: its position and its actualFileCount
    \* --- addStar / removeStar requests on one file (SpecStar)
    stars,             \* the users whose stars list holds the file
    starCount,         \* stats.starCount of the file
    starring           \* each request: its operation, its user, its position

pipelineVars ==
    <<totalPages, maxPagesPerChunk, startPage, chunk, allPageTexts,
      requests, compressions, built>>
outVars == <<result, escaped, caught>>
inputVars == <<entry, documentType, mimeType, fileName, now>>
parseVars == <<response, parsed>>
normVars == <<extractor, rawText, passes>>
concVars == <<calls, disk, clock, touched>>
tailVars == <<extractedText, pageCount, title, ocrOutcome, finalText>>
\* the variables of the other specifications, which a single call leaves alone
uploadVars == <<approvedFiles, uploads>>
starVars == <<stars, starCount, starring>>
idleVars == <<parseVars, normVars, concVars, tailVars, uploadVars, starVars>>
fsVars == <<files, created, tempPath>>
ocrVars == <<pdfPath, maxPages, pageNum, allText, imagePath, pageLog>>
typedVars == <<fsVars, ocrVars, data>>

NoChunk == [start |-> 0, end |-> 0, size |-> 0, num |-> 0]

\* a Buffer: its length in bytes, and for a PDF whether pdf-lib can load it
\* and the number of pages it holds; isNull is a missing buffer argument;
\* continuation is the number of its bytes that start no UTF-16 code unit
\* when it is decoded as UTF-8 (the 2nd byte of a 2-byte sequence, ...)
Buf(length, pages, loadable) ==
    [isNull |-> FALSE, length |-> length, pages |-> pages, loadable |-> loadable,
     continuation |-> 0]
NullBuffer == [isNull |-> TRUE, length |-> 0, pages |-> 0, loadable |-> FALSE,
               continuation |-> 0]

\* a decoded length taken to be the number of bytes
toStringLengthInBytes(b) == b.length

\* buffer.toString('utf-8').length
toStringLength(b) == b.length - b.continuation

BuffersOf(m) ==
    {NullBuffer}
    \cup (IF m = PDF
            THEN {Buf(l, n, TRUE) : l \in BufferLengths, n \in 0..MaxPages}
                 \cup {Buf(l, 0, FALSE) : l \in BufferLengths}
                 \* 10 pages of 3 MB: 3,000,000 bytes, or 300 KB a page
                 \cup {Buf(l, 10, TRUE) : l \in {3000000, 3072000}}
            ELSE {Buf(l, 1, FALSE) : l \in BufferLengths}
                 \cup (IF m = TXT
                         THEN {[Buf(l, 1, FALSE) EXCEPT !.continuation = 1] :
                                  l \in {20, 50, 51}}
                         ELSE {}))

\* one record per axios.post: the payload sent and how the provider answered
\* how the provider answered a submission
OutcomeClass(t) ==
    IF t.kind = "timeout" THEN "timeout"
    ELSE IF t.kind = "http" THEN (IF t.status = 429 THEN "http429" ELSE "http403")
    ELSE IF t.data.IsErroredOnProcessing THEN "errored"
    ELSE IF t.data.OCRExitCode \notin {1, 2} THEN "badexit"
    ELSE "ok"

Request(name, num, mime, size, first, last, t) ==
    [fileName |-> name, chunkNum |-> num, mimeType |-> mime, size |-> size,
     first |-> first, last |-> last, outcome |-> OutcomeClass(t), answer |-> t]

(* ---------------------- extractTextFromBuffer -------------------------- *)
\* OrchCatch without the conversion: the error is thrown on to the caller
OrchCatchRethrow(error) ==
    /\ caught' = error
    /\ result' = NoVal
    /\ escaped' = TRUE

\* the catch block of extractTextFromBuffer
OrchCatch(error) ==
    /\ caught' = error
    /\ IF error.isObj
         THEN result' = Unable(fileName, error.message) /\ escaped' = FALSE
         ELSE result' = NoVal /\ escaped' = TRUE

\* `return await delegate(...)` inside the try of extractTextFromBuffer
OrchReturn(r) ==
    /\ pc' = "done"
    /\ IF r.tag = "ret"
         THEN result' = r.val /\ escaped' = FALSE /\ UNCHANGED caught
         ELSE OrchCatch(r.err)

(* --------------------- OCRService (handwritten) ------------------------ *)
\* the catch block of extractTextFromHandwritten
HwCatch(error) ==
    IF error.isObj THEN Ret([kind |-> "hwUnable", fileName |-> fileName,
                            message |-> error.message])
                   ELSE Throw(TypeErrorOnNull)

\* chunkEnd without the clamp to totalPages
chunkEndUnclamped(start, perChunk, total) == start + perChunk

\* first and last+1 page (0-based) of the loop iteration starting at start
chunkEnd(start, perChunk, total) == Min(start + perChunk, total)
\* loopStep that stays on the same pages (the chunk is tried again)
loopStepStay(start, perChunk) == start

\* the loop increment of splitAndProcessPDF
loopStep(start, perChunk) == start + perChunk
\* chunkTooLarge comparing the byte size with the ceiling taken as KB
chunkTooLargeKB(size) == size > maxFileSize * 1024

\* chunkSizeKB > this.maxFileSize / 1024
chunkTooLarge(size) == size > maxFileSize
\* pageLabel printing the 0-based loop index
pageLabelZeroBased(start) == start

\* `${startPage + 1}`: the 1-based number of the first page of a chunk
pageLabel(start) == start + 1
\* the catch block of splitAndProcessPDF
splitCatch(error) == Throw(Err(<<"Failed to split PDF: ">> \o error.message))
\* chunkTry without the catch: the error leaves the loop
chunkTryNoCatch(r, start, end) ==
    IF r.tag = "ret" THEN Ret(PagesEntry(start + 1, end, r.val)) ELSE r

\* the try/catch around performOCR in the chunk loop: the entry pushed
chunkTry(r, start, end) ==
    IF r.tag = "ret" THEN Ret(PagesEntry(pageLabel(start), end, r.val))
                     ELSE Ret([kind |-> "failed", a |-> pageLabel(start), b |-> end,
                               reason |-> r.err.message])

extractTextFromHandwritten ==
    /\ pc = "extractTextFromHandwritten"
    /\ IF buffer.length > maxFileSize
         THEN IF mimeType = PDF
                THEN pc' = "splitAndProcessPDF" /\ UNCHANGED outVars
              ELSE IF mimeType = "undefined"
                \* mimeType.startsWith on a non-string
                THEN OrchReturn(HwCatch(Err(<<"mimeType.startsWith is not a function">>)))
              ELSE IF isImageType(mimeType)
                THEN pc' = "compressForOCR" /\ UNCHANGED outVars
              ELSE pc' = "performOCR" /\ UNCHANGED outVars
         ELSE pc' = "performOCR" /\ UNCHANGED outVars
    /\ UNCHANGED <<typedVars, inputVars, idleVars, fileRecord, buffer, pipelineVars>>

compressForOCR ==
    /\ pc = "compressForOCR"
    /\ \/ \E s \in {600000, maxFileSize + 1} :
            /\ buffer' = [buffer EXCEPT !.length = s]
            /\ compressions' = compressions + 1
            /\ pc' = "performOCR"
            /\ UNCHANGED outVars
       \/ \* sharp rejects the input
          /\ OrchReturn(HwCatch(Err(<<"Failed to compress document for OCR: ",
                                      "Input buffer contains unsupported image format">>)))
          /\ compressions' = compressions + 1
          /\ UNCHANGED buffer
    /\ UNCHANGED <<typedVars, inputVars, idleVars, fileRecord, totalPages, maxPagesPerChunk, startPage,
                   chunk, allPageTexts, requests, built>>

\* performOCR(buffer, fileName, mimeType) on the whole document
performOCRDirect ==
    /\ pc = "performOCR"
    /\ \E t \in TransportOutcomes :
         LET r == performOCR(t)
         IN  /\ requests' = Append(requests,
                    Request(fileName, 0, mimeType, buffer.length, 1, buffer.pages, t))
             /\ IF r.tag = "ret" THEN OrchReturn(Ret(OcrText(r.val)))
                                 ELSE OrchReturn(HwCatch(r.err))
    /\ UNCHANGED <<typedVars, inputVars, idleVars, fileRecord, buffer, totalPages, maxPagesPerChunk,
                   startPage, chunk, allPageTexts, compressions, built>>

\* splitAndProcessPDF up to the chunk loop: PDFDocument.load and the strategy
splitAndProcessPDF ==
    /\ pc = "splitAndProcessPDF"
    /\ IF buffer.loadable
         THEN /\ totalPages' = buffer.pages
              /\ maxPagesPerChunk' = maxPagesPerChunkOf(buffer.length, buffer.pages)
              /\ startPage' = 0
              /\ allPageTexts' = <<>>
              /\ pc' = "chunkLoop"
              /\ UNCHANGED outVars
         ELSE /\ OrchReturn(HwCatch(splitCatch(Err(<<"Failed to parse PDF document">>)).err))
              /\ UNCHANGED <<totalPages, maxPagesPerChunk, startPage, allPageTexts>>
    /\ UNCHANGED <<typedVars, inputVars, idleVars, fileRecord, buffer, chunk, requests, compressions, built>>

\* one loop iteration up to the size check: copyPages, save, skip if too large
buildChunk ==
    /\ pc = "chunkLoop"
    /\ startPage < totalPages
    /\ \E size \in {maxFileSize, maxFileSize + 1} :
         LET endPage == chunkEnd(startPage, maxPagesPerChunk, totalPages)
         IN  /\ built' = Append(built, [start |-> startPage, end |-> endPage,
                                        size |-> size])
             /\ IF chunkTooLarge(size)
                  THEN /\ allPageTexts' = Append(allPageTexts,
                              [kind |-> "tooLarge", a |-> pageLabel(startPage),
                               b |-> endPage])
                       /\ startPage' = loopStep(startPage, maxPagesPerChunk)
                       /\ UNCHANGED <<pc, chunk>>
                  ELSE /\ chunk' = [start |-> startPage, end |-> endPage, size |-> size,
                                    num |-> (startPage \div maxPagesPerChunk) + 1]
                       /\ pc' = "chunkOCR"
                       /\ UNCHANGED <<allPageTexts, startPage>>
    /\ UNCHANGED <<typedVars, inputVars, idleVars, fileRecord, buffer, totalPages, maxPagesPerChunk, requests,
                   compressions, outVars>>

\* the rest of the iteration: performOCR on the chunk inside its own try/catch
chunkOCR ==
    /\ pc = "chunkOCR"
    /\ \E t \in TransportOutcomes :
         LET x == chunkTry(performOCR(t), chunk.start, chunk.end)
         IN  /\ requests' = Append(requests,
                    Request(fileName, chunk.num, PDF, chunk.size,
                            chunk.start + 1, chunk.end, t))
             /\ IF x.tag = "ret"
                  THEN /\ allPageTexts' = Append(allPageTexts, x.val)
                       /\ startPage' = loopStep(startPage, maxPagesPerChunk)
                       /\ pc' = "chunkLoop"
                       /\ UNCHANGED outVars
                  ELSE \* an error leaving the loop: the catch of
                       \* splitAndProcessPDF, then of extractTextFromHandwritten
                       /\ OrchReturn(HwCatch(splitCatch(x.err).err))
                       /\ UNCHANGED <<allPageTexts, startPage>>
    /\ chunk' = NoChunk
    /\ UNCHANGED <<typedVars, inputVars, idleVars, fileRecord, buffer, totalPages, maxPagesPerChunk, compressions,
                   built>>

\* after the loop: join, return through extractTextFromHandwritten
splitReturn ==
    /\ pc = "chunkLoop"
    /\ ~(startPage < totalPages)
    /\ OrchReturn(Ret([kind |-> "merged", entries |-> allPageTexts]))
    /\ UNCHANGED <<typedVars, inputVars, idleVars, fileRecord, buffer, pipelineVars>>

(* ---------------------- temporary files (os.tmpdir) -------------------- *)
Path(kind, stamp, name, page) ==
    [kind |-> kind, stamp |-> stamp, name |-> name, page |-> page]
NoPath == Path("none", 0, "", 0)
\* path.join(os.tmpdir(), `temp-${Date.now()}-${fileName}`)
TempPathOf(stamp, name) == Path("temp", stamp, name, 0)
\* pdf2pic, saveFilename "page", savePath os.tmpdir(), format png: page.N.png
ImagePathOf(page) == Path("page", 0, "page", page)
\* the PDF the caller of tryOCRExtraction passes (it exists: the caller checks)
UploadedPdf == Path("upload", 0, "temp-1758180374581-quepdf.pdf", 0)

unlink(fs, path) == fs \ {path}

(* ------------------------- typed result strings ------------------------ *)
\* `Document "${fileName}" (${mimeType}) is supported for download but ...`
NotAvailable(f, m) == [kind |-> "notAvailable", fileName |-> f, mimeType |-> m]
\* `PDF "${fileName}" could not be processed for text extraction. Error: ...`
PdfFailed(f, msg) == [kind |-> "pdfFailed", fileName |-> f, message |-> msg]
PdfNoPages(f) == [kind |-> "pdfNoPages", fileName |-> f]
PdfLowText(f, pages, n) ==
    [kind |-> "pdfLowText", fileName |-> f, pages |-> pages, length |-> n]
\* formatOCRResult(ocrText, fileName, pageCount)
formatOCRResult(text, f, pages) ==
    [kind |-> "ocrResult", fileName |-> f, pages |-> pages, text |-> text]
PptFailed(f, msg) == [kind |-> "pptFailed", fileName |-> f, message |-> msg]
\* lengths of the text a structured extractor may find
ExtractedLengths == {0, 9, 20, 49, 50, 99, 100}
\* a catch block that hands the error on to the caller
CatchToStringRethrow(error, diagnostic) == Throw(error)

\* a catch block that builds its diagnostic from error.message
CatchToString(error, diagnostic) ==
    IF error.isObj THEN Ret(diagnostic) ELSE Throw(TypeErrorOnNull)

\* the outcome of the structured parser: an error, or the page count, the
\* length of the text found and whether a title differing from fileName is set
Data(err, pages, length, titled) ==
    [failed |-> err.isObj, err |-> err, pages |-> pages, length |-> length,
     titled |-> titled]
\* a test that sends everything but 'typed' to the handwritten pipeline
isHandwrittenLoose(dt) == dt # "typed"

\* documentType === 'handwritten'
isHandwritten(dt) == dt = "handwritten"

\* a switch without the case of the .docx MIME type
RouteWithoutDocx(m) ==
    IF m = PDF THEN "pdf"
    ELSE IF m = DOC THEN "word"
    ELSE IF m \in {PPT, PPTX} THEN "powerpoint"
    ELSE IF m = TXT THEN "plainText"
    ELSE "unsupported"

\* the switch of extractTextFromBuffer
Route(m) ==
    IF m = PDF THEN "pdf"
    ELSE IF m \in {DOC, DOCX} THEN "word"
    ELSE IF m \in {PPT, PPTX} THEN "powerpoint"
    ELSE IF m = TXT THEN "plainText"
    ELSE "unsupported"

extractTextFromBuffer ==
    /\ pc = "start"
    /\ entry = "extractTextFromBuffer"
    /\ IF buffer.isNull
         \* buffer.length inside the try
         THEN OrchReturn(Throw(TypeErrorOnNull))
       ELSE IF isHandwritten(documentType)
         THEN pc' = "extractTextFromHandwritten" /\ UNCHANGED outVars
       ELSE CASE Route(mimeType) = "pdf" ->
                   pc' = "extractFromPDF" /\ UNCHANGED outVars
              [] Route(mimeType) = "word" ->
                   pc' = "extractFromWord" /\ UNCHANGED outVars
              [] Route(mimeType) = "powerpoint" ->
                   pc' = "extractFromPowerPoint" /\ UNCHANGED outVars
              [] Route(mimeType) = "plainText" ->
                   OrchReturn(Ret(IF toStringLength(buffer) < 50
                                    THEN [kind |-> "shortText", fileName |-> fileName,
                                          length |-> toStringLength(buffer)]
                                    ELSE [kind |-> "plainText",
                                          length |-> toStringLength(buffer)]))
              [] OTHER ->
                   OrchReturn(Ret(NotAvailable(fileName, mimeType)))
    /\ UNCHANGED <<typedVars, inputVars, idleVars, fileRecord, buffer, pipelineVars>>

(* ----------------------------- tryOCRExtraction ------------------------ *)
\* `Document Title: ${Title}\n\n${cleanText}`, or cleanText alone
FinalText(ttl, cleanText) ==
    [kind |-> "finalText",
     text |-> (IF ttl # <<>> THEN <<"DocumentTitle">> \o ttl \o <<"nl", "nl">> ELSE <<>>)
              \o cleanText]

\* a low-text branch that hands back the OCR text as it is whenever there is one
lowTextResultBareOcr(ocr, length, f, pages) ==
    IF ocr.tag = "ret" /\ ocr.val # <<>>
      THEN FinalText(<<>>, ocr.val)
      ELSE PdfLowText(f, pages, length)

\* lines 295-323 of extractFromPDF: what is returned once tryOCRExtraction
\* has settled with ocr, the structured text being length characters long
lowTextResult(ocr, length, f, pages) ==
    IF ocr.tag = "ret" /\ ocr.val # <<>> /\ JsLength(ocr.val) > length
      THEN formatOCRResult(ocr.val, f, pages)
      ELSE PdfLowText(f, pages, length)

\* tryOCRExtraction settles: back in extractFromPDF (lines 295-323), or at
\* the caller of the entry point
TryOCRSettle(r) ==
    IF entry = "tryOCRExtraction"
      THEN /\ pc' = "done"
           /\ UNCHANGED caught
           /\ IF r.tag = "ret" THEN result' = OcrText(r.val) /\ escaped' = FALSE
                               ELSE result' = NoVal /\ escaped' = TRUE
      ELSE OrchReturn(Ret(lowTextResult(r, data.length, fileName, data.pages)))

\* ocrAppend that writes the marker of a page whose text is blank as well
ocrAppendBlankToo(text, n, recognized) ==
    text \o <<PageMarks[n], "nl">> \o Trim(recognized) \o <<"nl", "nl">>

\* if (text && text.trim()) allText += `--- Page ${pageNum} ---\n${text.trim()}\n\n`
ocrAppend(text, n, recognized) ==
    IF Trim(recognized) # <<>>
      THEN text \o <<PageMarks[n], "nl">> \o Trim(recognized) \o <<"nl", "nl">>
      ELSE text

\* imports and pdf2pic.fromPath
tryOCRExtraction ==
    /\ pc = "tryOCRExtraction"
    /\ \/ /\ pageNum' = 1
          /\ allText' = <<>>
          /\ pc' = "ocrConvert"
          /\ UNCHANGED outVars
       \/ /\ TryOCRSettle(Throw(Err(<<"Cannot find package 'pdf2pic'">>)))
          /\ UNCHANGED <<pageNum, allText>>
    /\ UNCHANGED <<fsVars, pdfPath, maxPages, imagePath, pageLog, data, inputVars, idleVars, fileRecord,
                   buffer, pipelineVars>>

\* convert(pageNum): rasterize one page of pdfPath into os.tmpdir()
ocrConvert ==
    /\ pc = "ocrConvert"
    /\ pageNum <= maxPages
    /\ \/ /\ pdfPath \in files
          /\ imagePath' = ImagePathOf(pageNum)
          /\ files' = files \cup {ImagePathOf(pageNum)}
          /\ created' = created \cup {ImagePathOf(pageNum)}
          /\ pc' = "ocrRecognize"
          /\ UNCHANGED <<pageNum, pageLog>>
       \/ \* convert rejects (always when pdfPath is gone): the page's catch
          /\ pageNum' = pageNum + 1
          /\ pageLog' = Append(pageLog, [outcome |-> "convertFailed", text |-> <<>>])
          /\ UNCHANGED <<imagePath, files, created, pc>>
    /\ UNCHANGED <<tempPath, pdfPath, maxPages, allText, data, inputVars, idleVars, fileRecord, buffer,
                   pipelineVars, outVars>>

\* Tesseract.recognize(imagePath) and the append to allText
ocrRecognize ==
    /\ pc = "ocrRecognize"
    /\ \/ \E text \in {<<>>, <<" ", "nl">>, <<" ", "a", "a", "a", "a", " ">>} :
            /\ allText' = ocrAppend(allText, pageNum, text)
            /\ pageLog' = Append(pageLog, [outcome |-> "recognized", text |-> text])
            /\ pc' = "ocrUnlink"
            /\ UNCHANGED pageNum
       \/ \* recognize rejects: the page's catch
          /\ pageNum' = pageNum + 1
          /\ pageLog' = Append(pageLog, [outcome |-> "recognizeFailed", text |-> <<>>])
          /\ pc' = "ocrConvert"
          /\ UNCHANGED allText
    /\ UNCHANGED <<fsVars, pdfPath, maxPages, imagePath, data, inputVars, idleVars, fileRecord, buffer,
                   pipelineVars, outVars>>

\* fs.promises.unlink(imagePath) and the loop increment
ocrUnlink ==
    /\ pc = "ocrUnlink"
    /\ files' = unlink(files, imagePath)
    /\ pageNum' = pageNum + 1
    /\ pc' = "ocrConvert"
    /\ UNCHANGED <<created, tempPath, pdfPath, maxPages, allText, imagePath, pageLog, data,
                   inputVars, idleVars, fileRecord, buffer, pipelineVars, outVars>>

\* return allText.trim()
ocrReturn ==
    /\ pc = "ocrConvert"
    /\ ~(pageNum <= maxPages)
    /\ TryOCRSettle(Ret(Trim(allText)))
    /\ UNCHANGED <<typedVars, inputVars, idleVars, fileRecord, buffer, pipelineVars>>

(* ------------------------------ extractFromPDF ------------------------- *)
\* writeFile(tempPath, buffer)
extractFromPDF ==
    /\ pc = "extractFromPDF"
    /\ \/ /\ tempPath' = TempPathOf(now, fileName)
          /\ files' = files \cup {TempPathOf(now, fileName)}
          /\ created' = created \cup {TempPathOf(now, fileName)}
          /\ pc' = "pdfExtract"
          /\ UNCHANGED <<data, outVars>>
       \/ \* writeFile rejects: the outer catch
          LET e == Err(<<"ENOENT: no such file or directory, open">>)
          IN  /\ data' = Data(e, 0, 0, FALSE)
              /\ OrchReturn(CatchToString(e, PdfFailed(fileName, e.message)))
              /\ UNCHANGED fsVars
    /\ UNCHANGED <<ocrVars, inputVars, idleVars, fileRecord, buffer, pipelineVars>>

\* pdfExtract.extract(tempPath, options, callback)
pdfExtract ==
    /\ pc = "pdfExtract"
    /\ \/ data' = Data(Err(<<"Invalid PDF structure">>), 0, 0, FALSE)
       \/ \E n \in 0..MaxPages, len \in ExtractedLengths, titled \in BOOLEAN :
            data' = Data(NoError, n, IF n = 0 THEN 0 ELSE len, titled)
    /\ pc' = "pdfUnlink"
    /\ UNCHANGED <<fsVars, ocrVars, inputVars, idleVars, fileRecord, buffer, pipelineVars, outVars>>

\* unlink(tempPath) on either path, then the rest of extractFromPDF up to
\* its return or to the call of tryOCRExtraction
pdfUnlink ==
    /\ pc = "pdfUnlink"
    /\ files' = unlink(files, tempPath)
    /\ IF data.failed
         THEN /\ OrchReturn(CatchToString(data.err, PdfFailed(fileName, data.err.message)))
              /\ UNCHANGED ocrVars
       ELSE IF data.pages = 0
         THEN OrchReturn(Ret(PdfNoPages(fileName))) /\ UNCHANGED ocrVars
       ELSE IF data.length < LowTextThreshold
         THEN /\ pdfPath' = tempPath
              /\ maxPages' = Min(data.pages, LocalOCRMaxPages)
              /\ pc' = "tryOCRExtraction"
              /\ UNCHANGED <<pageNum, allText, imagePath, pageLog, outVars>>
       ELSE /\ OrchReturn(Ret([kind |-> "pdfText", rawLength |-> data.length,
                                 titled |-> data.titled]))
            /\ UNCHANGED ocrVars
    /\ UNCHANGED <<created, tempPath, data, inputVars, idleVars, fileRecord, buffer, pipelineVars>>

(* --------------------------- extractFromPowerPoint --------------------- *)
extractFromPowerPoint ==
    /\ pc = "extractFromPowerPoint"
    /\ \/ /\ tempPath' = TempPathOf(now, fileName)
          /\ files' = files \cup {TempPathOf(now, fileName)}
          /\ created' = created \cup {TempPathOf(now, fileName)}
          /\ pc' = "parseOffice"
          /\ UNCHANGED <<data, outVars>>
       \/ LET e == Err(<<"ENOENT: no such file or directory, open">>)
          IN  /\ data' = Data(e, 0, 0, FALSE)
              /\ OrchReturn(CatchToString(e, PptFailed(fileName, e.message)))
              /\ UNCHANGED fsVars
    /\ UNCHANGED <<ocrVars, inputVars, idleVars, fileRecord, buffer, pipelineVars>>

\* officeParser.parseOffice(tempPath, callback)
parseOffice ==
    /\ pc = "parseOffice"
    /\ \/ data' = Data(Err(<<"officeparser: file is not a presentation">>), 0, 0, FALSE)
       \/ \E len \in ExtractedLengths : data' = Data(NoError, 0, len, FALSE)
    /\ pc' = "pptUnlink"
    /\ UNCHANGED <<fsVars, ocrVars, inputVars, idleVars, fileRecord, buffer, pipelineVars, outVars>>

pptUnlink ==
    /\ pc = "pptUnlink"
    /\ files' = unlink(files, tempPath)
    /\ IF data.failed
         THEN OrchReturn(CatchToString(data.err, PptFailed(fileName, data.err.message)))
       ELSE IF data.length < 10
         THEN OrchReturn(Ret([kind |-> "pptLowText", fileName |-> fileName,
                              length |-> data.length]))
       ELSE OrchReturn(Ret([kind |-> "pptText", rawLength |-> data.length]))
    /\ UNCHANGED <<created, tempPath, ocrVars, data, inputVars, idleVars, fileRecord, buffer, pipelineVars>>

(* ------------------------------ extractFromWord ------------------------ *)
\* mammoth.extractRawText settles with text, with an Error, or (a rejection
\* JavaScript allows) with a value that has no message
extractFromWord ==
    /\ pc = "extractFromWord"
    /\ \/ \E len \in ExtractedLengths :
            /\ data' = Data(NoError, 0, len, FALSE)
            /\ OrchReturn(Ret(IF len < 50
                                THEN [kind |-> "wordLowText", fileName |-> fileName]
                                ELSE [kind |-> "wordText", rawLength |-> len]))
       \/ \E e \in {Err(<<"Could not find file in options">>),
                   [isObj |-> FALSE, message |-> <<>>, status |-> NoStatus]} :
            /\ data' = Data(e, 0, 0, FALSE)
            /\ OrchReturn(CatchToString(e, [kind |-> "wordFailed", fileName |-> fileName,
                                            message |-> e.message]))
    /\ UNCHANGED <<fsVars, ocrVars, inputVars, idleVars, fileRecord, buffer, pipelineVars>>

(* ------------------- uploadMaterial (handwritten branch) --------------- *)
\* new File({extractedText, extractionStatus, extractionError, ...}); a null
\* extractionError is the message <<>> with isNull set
File(status, text, error) ==
    [saved |-> status # "none", extractionStatus |-> status, extractedText |-> text,
     extractionError |-> error]
NoFile == File("none", NoVal, [isNull |-> TRUE, message |-> <<>>])

\* the caller of extractTextFromBuffer: fs.promises.readFile has given the
\* buffer, the call has settled; the try/catch of lines 459-488, then
\* newFile.save() and the 201 response
uploadMaterial ==
    /\ pc = "done" /\ fileRecord = NoFile
    /\ entry = "extractTextFromBuffer" /\ documentType = "handwritten"
    \* req.file.mimetype is a string, fileBuffer a Buffer
    /\ mimeType # "undefined" /\ ~buffer.isNull
    /\ fileRecord' =
          IF escaped
            \* the TypeError the catch of extractTextFromBuffer raised
            THEN File("failed",
                      [kind |-> "ocrFailed", message |-> TypeErrorOnNull.message],
                      [isNull |-> FALSE, message |-> TypeErrorOnNull.message])
            ELSE File("success", result, [isNull |-> TRUE, message |-> <<>>])
    /\ UNCHANGED <<typedVars, inputVars, idleVars, buffer, pipelineVars, outVars, pc>>

(* ------------------------------ specification -------------------------- *)
callVars == <<caught, built, entry, documentType, mimeType, fileName, buffer, pc, totalPages,
          maxPagesPerChunk, startPage, chunk, allPageTexts, requests, compressions,
          result, escaped, now, files, created, tempPath, pdfPath, maxPages,
          pageNum, allText, imagePath, pageLog, data, fileRecord>>
vars == <<callVars, parseVars, normVars, concVars, tailVars, uploadVars, starVars>>

\* parseOCRResponse not applied yet
NotParsed == [tag |-> "none", val |-> NoVal, err |-> NoError]

InitLocals ==
    /\ totalPages = 0 /\ maxPagesPerChunk = 0 /\ startPage = 0
    /\ chunk = NoChunk /\ allPageTexts = <<>> /\ requests = <<>>
    /\ compressions = 0 /\ result = NoVal /\ escaped = FALSE
    /\ caught = NoError /\ built = <<>>
    /\ now = 1000 /\ created = {} /\ tempPath = NoPath
    /\ pageNum = 0 /\ allText = <<>> /\ imagePath = NoPath /\ pageLog = <<>>
    /\ fileRecord = NoFile
    /\ data = Data(NoError, 0, 0, FALSE)

\* the variables of the named parts are at rest: "call" (no call of the
\* services under way), "parse", "norm", "tail", "conc", "upload", "star"
Idle(parts) ==
    /\ "call" \in parts =>
          /\ InitLocals
          /\ entry = "none" /\ documentType = "typed" /\ mimeType = PDF
          /\ fileName = "" /\ buffer = NullBuffer /\ files = {}
          /\ pdfPath = NoPath /\ maxPages = 0 /\ pc = "idle"
    /\ "parse" \in parts =>
          response = Response(FALSE, "", 0, <<>>) /\ parsed = NotParsed
    /\ "norm" \in parts =>
          extractor = "none" /\ rawText = <<>> /\ passes = <<>>
    /\ "tail" \in parts =>
          /\ extractedText = <<>> /\ pageCount = 0 /\ title = <<>>
          /\ ocrOutcome = NotParsed /\ finalText = NoVal
    /\ "conc" \in parts =>
          calls = <<>> /\ disk = {} /\ clock = 0 /\ touched = {}
    /\ "upload" \in parts =>
          approvedFiles = 0 /\ uploads = <<>>
    /\ "star" \in parts =>
          stars = {} /\ starCount = 0 /\ starring = <<>>

Init ==
    /\ InitLocals
    /\ Idle({"parse", "norm", "tail", "conc", "upload", "star"})
    /\ \/ /\ entry = "extractTextFromBuffer"
          /\ documentType \in {"typed", "handwritten", "scanned"}
          \* "undefined" stands for a missing mimeType (not a string)
          /\ mimeType \in {PDF, DOC, DOCX, PPT, PPTX, TXT, JPEG, "application/zip",
                          "undefined"}
          /\ fileName \in FileNames
          /\ buffer \in BuffersOf(mimeType)
          /\ files = {}
          /\ pdfPath = NoPath /\ maxPages = 0
          /\ pc = "start"
       \/ \* tryOCRExtraction(pdfPath, 'test.pdf', maxPages) on an existing PDF
          /\ entry = "tryOCRExtraction"
          /\ documentType = "typed" /\ mimeType = PDF /\ fileName = "test.pdf"
          /\ buffer = NullBuffer
          /\ files = {UploadedPdf}
          /\ pdfPath = UploadedPdf
          /\ maxPages \in 1..LocalOCRMaxPages
          /\ pc = "tryOCRExtraction"

Next ==
    \/ extractTextFromBuffer
    \/ extractTextFromHandwritten
    \/ compressForOCR
    \/ performOCRDirect
    \/ splitAndProcessPDF
    \/ buildChunk
    \/ chunkOCR
    \/ splitReturn
    \/ extractFromPDF
    \/ pdfExtract
    \/ pdfUnlink
    \/ tryOCRExtraction
    \/ ocrConvert
    \/ ocrRecognize
    \/ ocrUnlink
    \/ ocrReturn
    \/ extractFromPowerPoint
    \/ parseOffice
    \/ pptUnlink
    \/ extractFromWord
    \/ uploadMaterial

Spec == Init /\ [][Next]_vars

(* ============================== properties ============================= *)
\* the number of iterations the chunk loop makes over totalPages pages
NumChunks == (totalPages + maxPagesPerChunk - 1) \div maxPagesPerChunk
\* the call went through splitAndProcessPDF and the PDF could be loaded
SplitStarted ==
    /\ entry = "extractTextFromBuffer" /\ documentType = "handwritten"
    /\ mimeType = PDF /\ ~buffer.isNull /\ buffer.length > maxFileSize
    /\ buffer.loadable
\* the requests that carried chunk number i
ChunkRequests(i) == {j \in 1..Len(requests) : requests[j].chunkNum = i}
\* C1: extractTextFromBuffer always returns a string and never throws; when
\* its catch receives an error thrown by a delegate (or by its own inline
\* code), the returned string is the diagnostic naming fileName and the
\* error's message.
C1_AlwaysReturnsString ==
    (entry = "extractTextFromBuffer" /\ pc = "done") =>
        /\ ~escaped
        /\ result.kind # "none"
        /\ caught.isObj => result = Unable(fileName, caught.message)

\* a Word extraction whose own catch threw, turned into the diagnostic
C1_Witness ==
    /\ entry = "extractTextFromBuffer" /\ pc = "done"
    /\ documentType = "typed" /\ Route(mimeType) = "word"
    /\ ~buffer.isNull
    /\ caught.isObj
    /\ result = Unable(fileName, TypeErrorOnNull.message)

\* C2: the page ranges the chunk loop iterates over are consecutive and
\* non-overlapping, start at page 1, are produced in ascending order and,
\* when the loop has finished, end at page N: every page 1..N lies in
\* exactly one chunk.
C2_ChunkCoverage ==
    /\ \A i \in 1..Len(built) :
         /\ built[i].start = (IF i = 1 THEN 0 ELSE built[i - 1].end)
         /\ built[i].start < built[i].end
         /\ built[i].end <= totalPages
    /\ (pc = "done" /\ result.kind = "merged" /\ totalPages >= 1) =>
         \A p \in 1..totalPages :
            Cardinality({i \in 1..Len(built) :
                            built[i].start < p /\ p <= built[i].end}) = 1

\* a finished split whose last chunk is shorter than the first
C2_Witness ==
    /\ pc = "done" /\ result.kind = "merged" /\ Len(built) >= 2
    /\ built[Len(built)].end - built[Len(built)].start
         < built[1].end - built[1].start

\* C3: a chunk whose OCR submission fails, or that is skipped as too large,
\* does not stop the loop: the call returns the merged text, every chunk
\* that fits was submitted, and each chunk whose submission succeeded has
\* its text at its position in page order.
C3_PartialFailureIsolation ==
    (pc = "done" /\ SplitStarted) =>
        /\ ~escaped
        /\ result.kind = "merged"
        /\ Len(result.entries) = NumChunks
        /\ Len(built) = NumChunks
        /\ \A i \in 1..NumChunks :
             /\ built[i].size <= maxFileSize => ChunkRequests(i) # {}
             /\ \A j \in ChunkRequests(i) :
                  requests[j].outcome = "ok" =>
                     result.entries[i] =
                        PagesEntry((i - 1) * maxPagesPerChunk + 1,
                                   Min(i * maxPagesPerChunk, totalPages),
                                   performOCR(requests[j].answer).val)

\* chunk 2 of 3 failed, chunks 1 and 3 carry their text
C3_Witness ==
    /\ pc = "done" /\ result.kind = "merged" /\ Len(result.entries) = 3
    /\ result.entries[1].kind = "pages"
    /\ result.entries[2].kind = "failed"
    /\ result.entries[3].kind = "pages"
    /\ requests[2].outcome = "timeout"

\* C4 (as claimed): a provider-level fatal answer (429, invalid key,
\* IsErroredOnProcessing) to any submission ends the call: it is the last
\* submission, and the call returns one diagnostic naming the file.
C4_FatalErrorAborts ==
    \A j \in 1..Len(requests) :
        requests[j].outcome \in {"http429", "http403", "errored"} =>
            /\ j = Len(requests)
            /\ pc = "done" => /\ result.kind \in {"hwUnable", "unable"}
                              /\ result.fileName = fileName

\* C5: every chunk the loop builds is either at most maxFileSize bytes or is
\* recorded as too large and never submitted; the loop goes on after a
\* skipped chunk.
C5_SizeCeiling ==
    /\ \A i \in 1..Len(built) :
         \/ built[i].size <= maxFileSize
         \/ /\ i <= Len(allPageTexts)
            /\ allPageTexts[i].kind = "tooLarge"
            /\ ChunkRequests(i) = {}
    /\ \A j \in 1..Len(requests) :
         requests[j].chunkNum > 0 => requests[j].size <= maxFileSize
    /\ (pc = "done" /\ SplitStarted) => Len(built) = NumChunks

\* a skipped chunk followed by a chunk that was submitted
C5_Witness ==
    /\ pc = "done" /\ result.kind = "merged"
    /\ \E i \in 1..(Len(result.entries) - 1) :
         /\ result.entries[i].kind = "tooLarge"
         /\ built[i].size > maxFileSize
         /\ ChunkRequests(i + 1) # {}

\* C6: no chunk holds more than 3 pages, whatever the page count and size.
C6_PageCeiling ==
    /\ \A i \in 1..Len(built) :
         built[i].end - built[i].start <= MAX_PAGES_PER_CHUNK
    /\ \A j \in 1..Len(requests) :
         requests[j].chunkNum > 0 =>
            requests[j].last - requests[j].first + 1 <= MAX_PAGES_PER_CHUNK

\* a 3-page chunk of a PDF whose size alone would allow more pages
C6_Witness ==
    /\ SplitStarted
    /\ pagesBySize(buffer.length, buffer.pages) > MAX_PAGES_PER_CHUNK
    /\ \E i \in 1..Len(built) : built[i].end - built[i].start = MAX_PAGES_PER_CHUNK

\* C7 (as claimed): every PDF payload sent to the provider, directly or as a
\* chunk, has at most 3 pages.
C7_SubmittedPdfWithinPageLimit ==
    \A j \in 1..Len(requests) :
        requests[j].mimeType = PDF =>
            requests[j].last - requests[j].first + 1 <= MAX_PAGES_PER_CHUNK

\* C8: the merged output has one entry per chunk, in ascending page order:
\* the marker with 1-based inclusive pages a-b and the chunk's text when the
\* submission succeeded, a note with the pages and the reason when it
\* failed or the chunk was skipped.
C8_MergedEntries ==
    (pc = "done" /\ result.kind = "merged") =>
        /\ Len(result.entries) = Len(built)
        /\ \A i \in 1..Len(result.entries) :
             LET e == result.entries[i]
             IN  /\ e.a = built[i].start + 1
                 /\ e.b = built[i].end
                 /\ i > 1 => e.a > result.entries[i - 1].b
                 /\ \/ /\ e.kind = "tooLarge"
                       /\ built[i].size > maxFileSize
                    \/ /\ e.kind = "pages"
                       /\ \E j \in ChunkRequests(i) :
                            /\ performOCR(requests[j].answer).tag = "ret"
                            /\ e.text = performOCR(requests[j].answer).val
                    \/ /\ e.kind = "failed"
                       /\ \E j \in ChunkRequests(i) :
                            /\ performOCR(requests[j].answer).tag = "throw"
                            /\ e.reason = performOCR(requests[j].answer).err.message

\* a merged output holding a text entry, a failure note and a skip note
C8_Witness ==
    /\ pc = "done" /\ result.kind = "merged"
    /\ \E i, j, k \in 1..Len(result.entries) :
         /\ result.entries[i].kind = "pages"
         /\ result.entries[j].kind = "failed"
         /\ result.entries[k].kind = "tooLarge"

\* C9: within one call no payload is submitted twice: the whole document is
\* sent at most once, each chunk at most once, so there are never more
\* requests than chunks.
C9_AtMostOneSubmission ==
    /\ \A i, j \in 1..Len(requests) :
         i # j => requests[i].chunkNum # requests[j].chunkNum
    /\ Len(requests) <= (IF built = <<>> THEN 1 ELSE Len(built))

\* a chunk that timed out, followed by the submission of the next chunk
C9_Witness ==
    \E j \in 1..(Len(requests) - 1) :
        /\ requests[j].outcome = "timeout"
        /\ requests[j].chunkNum > 0
        /\ requests[j + 1].chunkNum = requests[j].chunkNum + 1

\* C10 (as claimed): when the call completes, no temporary file it created
\* is left on disk.
C10_NoTempFileLeft ==
    pc = "done" => created \cap files = {}

(* ===================== parseOCRResponse on its own ===================== *)
MaxResults == 2          \* largest number of per-page results in a response

RECURSIVE SeqsUpTo(_, _)
\* the sequences over S of length at most n
SeqsUpTo(S, n) ==
    IF n = 0 THEN {<<>>}
    ELSE LET shorter == SeqsUpTo(S, n - 1)
         IN  shorter \cup {Append(q, x) : q \in shorter, x \in S}

Responses ==
    {Response(e, m, c, r) :
        e \in BOOLEAN, m \in {"", "E216: Unable to detect the file extension"},
        c \in {0, 1, 2, 3, 4},
        r \in SeqsUpTo({PageResult(k, t) : k \in {1, -10},
                           t \in {<<>>, <<" ">>, <<"a", "nl">>, TenLetters}},
                       MaxResults)}

InitParse ==
    /\ response \in Responses
    /\ parsed = NotParsed
    /\ Idle({"call", "norm", "tail", "conc", "upload", "star"})

\* this.parseOCRResponse(response.data)
applyParseOCRResponse ==
    /\ parsed = NotParsed
    /\ parsed' = parseOCRResponse(response)
    /\ UNCHANGED <<response, callVars, uploadVars, starVars, normVars, concVars, tailVars>>

SpecParse == InitParse /\ [][applyParseOCRResponse]_vars

\* the response passes both checks of parseOCRResponse
Accepted(d) == ~d.IsErroredOnProcessing /\ d.OCRExitCode \in {1, 2}
\* the positions of the per-page results that parsed successfully
SuccessfulPages(d) ==
    {n \in 1..Len(d.ParsedResults) : d.ParsedResults[n].FileParseExitCode = 1}
IsPageMark(tok) == \E n \in 1..Len(PageMarks) : tok = PageMarks[n]
RECURSIVE MarksOfPages(_, _)
\* the markers of the pages of set P that are >= n, ascending
MarksOfPages(P, n) ==
    IF \A m \in P : m < n THEN <<>>
    ELSE (IF n \in P THEN <<PageMarks[n]>> ELSE <<>>) \o MarksOfPages(P, n + 1)
\* what follows the marker of page n, up to the next marker or the end
TextAfterMark(s, n) ==
    LET i == CHOOSE k \in 1..Len(s) : s[k] = PageMarks[n]
        later == {k \in (i + 1)..Len(s) : IsPageMark(s[k])}
        stop == IF later = {} THEN Len(s) + 1
                ELSE CHOOSE k \in later : \A l \in later : k <= l
    IN  SubSeq(s, i + 1, stop - 1)

\* C12: parseOCRResponse throws exactly when the response has the
\* processing-level error flag set or an overall exit code other than 1 or
\* 2; in every other case it returns a string, whatever the per-page
\* results are.
C12_ThrowsIffRejected ==
    parsed # NotParsed =>
        /\ parsed.tag = "throw" <=> ~Accepted(response)
        /\ parsed.tag = "ret" =>
             \A k \in 1..Len(parsed.val) :
                parsed.val[k] \in {"a", " ", "nl", "NoReadable"} \/ IsPageMark(parsed.val[k])

\* an accepted response (exit code 2) all of whose pages failed
C12_Witness ==
    /\ parsed.tag = "ret"
    /\ response.OCRExitCode = 2
    /\ Len(response.ParsedResults) = MaxResults
    /\ SuccessfulPages(response) = {}

\* C13: for an accepted response the returned text holds a `--- Page N ---`
\* marker for exactly the results whose parse code is 1, N being the
\* 1-based position of the result, in ascending order, each followed by a
\* newline and that page's text (up to trailing whitespace); a failed page
\* contributes nothing and does not fail the call.
C13_MarkersForSuccessfulPages ==
    (parsed # NotParsed /\ Accepted(response)) =>
        /\ parsed.tag = "ret"
        /\ SelectSeq(parsed.val, IsPageMark) = MarksOfPages(SuccessfulPages(response), 1)
        /\ \A n \in SuccessfulPages(response) :
             TrimEnd(TextAfterMark(parsed.val, n))
                = TrimEnd(<<"nl">> \o response.ParsedResults[n].ParsedText)

\* page 1 failed and page 2 parsed: the text holds the marker of page 2 only
C13_Witness ==
    /\ parsed.tag = "ret"
    /\ Len(response.ParsedResults) = 2
    /\ SuccessfulPages(response) = {2}
    /\ response.ParsedResults[2].ParsedText = TenLetters
    /\ parsed.val = <<"P2", "nl">> \o TenLetters

\* C14: for an accepted response whose merged text is empty or shorter than
\* 10 characters the standard 'No readable text found' message is returned,
\* not thrown; otherwise the merged text is returned.
C14_NoReadableTextIsSuccess ==
    (parsed # NotParsed /\ Accepted(response)) =>
        LET merged == Trim(PagesText(response.ParsedResults, 1))
        IN  /\ parsed.tag = "ret"
            /\ JsLength(merged) < 10 => parsed.val = NoReadableText
            /\ JsLength(merged) >= 10 => parsed.val = merged

\* an accepted response without any per-page result
C14_Witness ==
    /\ Accepted(response)
    /\ response.ParsedResults = <<>>
    /\ parsed = Ret(NoReadableText)

\* C28: for an accepted response parseOCRResponse returns the 'No readable
\* text found' message if and only if no per-page result has a successful
\* parse code; as soon as one page parsed successfully the result is the
\* marker text, which starts with that page's 14-character marker and so
\* reaches the 10-character threshold even if every ParsedText is empty.
C28_NoReadableIffNoPageParsed ==
    (parsed # NotParsed /\ Accepted(response)) =>
        /\ parsed.tag = "ret"
        /\ parsed.val = NoReadableText <=> SuccessfulPages(response) = {}
        /\ SuccessfulPages(response) # {} =>
              /\ IsPageMark(parsed.val[1])
              /\ JsLength(parsed.val) >= 14

\* two pages parsed, both without text: the result is the two markers
C28_Witness ==
    /\ Accepted(response)
    /\ response.ParsedResults = <<PageResult(1, <<>>), PageResult(1, <<>>)>>
    /\ parsed = Ret(<<"P1", "nl", "nl", "nl", "P2">>)

(* --------------------------- routing (C15, C20) ------------------------ *)
\* the control points of the handwritten pipeline
HandwrittenPcs ==
    {"extractTextFromHandwritten", "compressForOCR", "performOCR", "splitAndProcessPDF",
     "chunkLoop", "chunkOCR"}
\* C15: when documentType is 'handwritten', extractTextFromBuffer hands over
\* to the handwritten OCR pipeline for every mimeType: no structured
\* extractor, inline plain-text handling or local-OCR fallback runs and no
\* temporary file is written; for any other documentType the remote OCR
\* provider is never contacted.
C15_HandwrittenBypassesClassification ==
    entry = "extractTextFromBuffer" =>
        /\ documentType = "handwritten" =>
             /\ pc \notin {"extractFromPDF", "pdfExtract", "pdfUnlink", "tryOCRExtraction",
                          "ocrConvert", "ocrRecognize", "ocrUnlink",
                          "extractFromPowerPoint", "parseOffice", "pptUnlink",
                          "extractFromWord"}
             /\ created = {} /\ pdfPath = NoPath
             /\ (pc = "done" /\ ~escaped) => result.kind \in {"hwUnable", "ocrText", "merged", "unable"}
             /\ (pc \notin {"start", "done"} /\ ~buffer.isNull) => pc \in HandwrittenPcs
        /\ documentType # "handwritten" =>
             /\ pc \notin HandwrittenPcs
             /\ requests = <<>> /\ compressions = 0

\* a handwritten text/plain upload is sent to the provider, not read inline
C15_Witness ==
    /\ entry = "extractTextFromBuffer" /\ documentType = "handwritten"
    /\ mimeType = TXT /\ pc = "done" /\ Len(requests) = 1
    /\ result.kind = "ocrText"

MaxTextLen == 5          \* longest text (in characters) that is normalized

InitNorm ==
    /\ extractor \in {"pdf", "powerpoint", "word"}
    /\ rawText \in SeqsUpTo({"a", " ", "nl", "cr"}, MaxTextLen)
    /\ passes = <<>>
    /\ Idle({"call", "parse", "tail", "conc", "upload", "star"})

\* the normalization applied to the text, then to its own output
applyNormalization ==
    /\ Len(passes) < 2
    /\ LET text == IF passes = <<>> THEN rawText ELSE passes[Len(passes)]
       IN  passes' = Append(passes,
                        IF extractor = "pdf" THEN normalizePDF(text)
                        ELSE IF extractor = "powerpoint" THEN normalizePowerPoint(text)
                        ELSE normalizeWord(text))
    /\ UNCHANGED <<extractor, rawText, callVars, uploadVars, starVars, parseVars, concVars, tailVars>>

SpecNorm == InitNorm /\ [][applyNormalization]_vars

\* C19: the whitespace normalization of each structured extractor (PDF,
\* PowerPoint, Word) is idempotent: normalizing the already-normalized text
\* returns it unchanged.
C19_NormalizationIdempotent ==
    Len(passes) = 2 => passes[2] = passes[1]

\* the control points and the results of each extractor
PdfPcs ==
    {"extractFromPDF", "pdfExtract", "pdfUnlink", "tryOCRExtraction", "ocrConvert",
     "ocrRecognize", "ocrUnlink"}
\* the result is one of the given kinds, or the Orchestrator's diagnostic
\* for an error the extractor let through
ReturnedBy(kinds) == ~escaped /\ result.kind \in kinds \cup {"unable"}

\* C20: for a typed document the strategy is a function of the MIME type
\* alone: application/pdf runs the PDF extractor, the two Word types the
\* Word extractor, the two PowerPoint types the PowerPoint extractor,
\* text/plain is handled inline, and every other MIME type gives the
\* 'not available for this file type' message as a normal result.
C20_RoutingByMimeType ==
    (entry = "extractTextFromBuffer" /\ documentType = "typed"
       /\ ~buffer.isNull /\ pc # "start") =>
        /\ mimeType = "application/pdf" =>
             /\ pc \in PdfPcs \cup {"done"}
             /\ pc = "done" => ReturnedBy({"pdfFailed", "pdfNoPages", "pdfLowText",
                                          "ocrResult", "pdfText"})
        /\ mimeType \in {"application/msword",
               "application/vnd.openxmlformats-officedocument.wordprocessingml.document"} =>
             /\ pc \in {"extractFromWord", "done"}
             /\ pc = "done" => ReturnedBy({"wordFailed", "wordLowText", "wordText"})
        /\ mimeType \in {"application/vnd.ms-powerpoint",
               "application/vnd.openxmlformats-officedocument.presentationml.presentation"} =>
             /\ pc \in {"extractFromPowerPoint", "parseOffice", "pptUnlink", "done"}
             /\ pc = "done" => ReturnedBy({"pptFailed", "pptLowText", "pptText"})
        /\ mimeType = "text/plain" =>
             /\ pc = "done" /\ ~escaped
             /\ result.kind \in {"shortText", "plainText"}
        /\ mimeType \in {"image/jpeg", "application/zip", "undefined"} =>
             /\ pc = "done" /\ ~escaped /\ caught = NoError
             /\ result = NotAvailable(fileName, mimeType)

\* an archive is answered with the 'not available' message
C20_Witness ==
    /\ entry = "extractTextFromBuffer" /\ documentType = "typed"
    /\ mimeType = "application/zip" /\ pc = "done" /\ ~escaped
    /\ result.kind = "notAvailable"

(* ------------------------- plain text (C21) ---------------------------- *)
\* C21: for a typed text/plain document the result is the decoded text
\* verbatim when its decoded length is at least 50 characters, and otherwise
\* the diagnostic naming the file that says 'very short or empty' and gives
\* the decoded length followed by 'characters'; exactly 50 characters are
\* returned verbatim.
C21_PlainTextThreshold ==
    (entry = "extractTextFromBuffer" /\ documentType = "typed"
       /\ mimeType = "text/plain" /\ ~buffer.isNull /\ pc = "done") =>
        LET decoded == buffer.length - buffer.continuation
        IN  /\ ~escaped /\ caught = NoError
            /\ decoded >= 50 => result = [kind |-> "plainText", length |-> decoded]
            /\ decoded < 50 =>
                  result = [kind |-> "shortText", fileName |-> fileName,
                            length |-> decoded]

\* 50 bytes that decode to 49 characters are answered with the diagnostic
C21_Witness ==
    /\ entry = "extractTextFromBuffer" /\ documentType = "typed"
    /\ mimeType = "text/plain" /\ pc = "done"
    /\ buffer.length = 50 /\ buffer.continuation = 1
    /\ result = [kind |-> "shortText", fileName |-> fileName, length |-> 49]

C23_PagesPerChunk ==
    (SplitStarted /\ pc \in {"chunkLoop", "chunkOCR", "done"} /\ totalPages >= 1) =>
        LET bySize == (900 * 1024 * totalPages) \div buffer.length
            capped == IF bySize < 3 THEN bySize ELSE 3
            expected == IF capped > 1 THEN capped ELSE 1
        IN  /\ maxPagesPerChunk = expected
            /\ maxPagesPerChunk \in 1..3
            /\ \A i \in 1..Len(built) :
                 built[i].end - built[i].start
                    = (IF built[i].end < totalPages THEN expected
                       ELSE totalPages - built[i].start)

\* two pages of 1.5 MB each: one page per chunk
C23_Witness ==
    /\ SplitStarted /\ pc = "done"
    /\ buffer.length = 3000000 /\ totalPages = 2
    /\ maxPagesPerChunk = 1 /\ Len(built) = 2

\* C24: a 10-page handwritten PDF of 3 MB in total (300 KB a page) is split
\* into exactly 4 chunks covering pages 1-3, 4-6, 7-9 and 10-10: the
\* size-based pages per chunk is 3, as is the ceiling.
C24_TenPagesFourChunks ==
    (SplitStarted /\ buffer.pages = 10 /\ buffer.length \in {3000000, 3072000}
       /\ pc = "done") =>
        /\ maxPagesPerChunk = 3
        /\ [i \in 1..Len(built) |-> <<built[i].start + 1, built[i].end>>]
              = << <<1, 3>>, <<4, 6>>, <<7, 9>>, <<10, 10>> >>
        /\ result.kind = "merged"
        /\ [i \in 1..Len(result.entries) |-> <<result.entries[i].a, result.entries[i].b>>]
              = << <<1, 3>>, <<4, 6>>, <<7, 9>>, <<10, 10>> >>

\* the four chunks of the 3,000,000-byte PDF, the last one of page 10 alone
C24_Witness ==
    /\ SplitStarted /\ buffer.pages = 10 /\ buffer.length = 3000000 /\ pc = "done"
    /\ Len(requests) = 4
    /\ requests[4].first = 10 /\ requests[4].last = 10

(* --------------------- low-text fallback (C17) ------------------------- *)
\* extractFromPDF has returned after a structured extraction that succeeded
PdfExtracted ==
    /\ entry = "extractTextFromBuffer" /\ documentType # "handwritten"
    /\ mimeType = "application/pdf" /\ pc = "done"
    /\ created # {} /\ ~data.failed

\* tryOCRExtraction was called on the temporary file for at most 3 pages and
\* the longer of the two texts was returned: the OCR text in the frame of
\* formatOCRResult if it is non-empty and strictly longer, the low-text
\* diagnostic with the structured text otherwise
FallbackDecided ==
    /\ pdfPath # NoPath /\ pdfPath = tempPath
    /\ maxPages = (IF data.pages < 3 THEN data.pages ELSE 3)
    /\ ~escaped
    /\ LET ocrText == Trim(allText)
       IN  IF ocrText # <<>> /\ JsLength(ocrText) > data.length
             THEN result = formatOCRResult(ocrText, fileName, data.pages)
             ELSE result = PdfLowText(fileName, data.pages, data.length)

\* C17 (as stated): for a PDF whose structured extraction yields fewer than
\* 100 characters, extractFromPDF does not return before invoking the
\* local-OCR fallback and then returns the longer of the two results, the
\* fallback text only if it is strictly longer.
C17_LowTextAlwaysFallsBack ==
    (PdfExtracted /\ data.length < 100) => FallbackDecided

\* C17 (amended): the same for a PDF with at least one page; a PDF without
\* pages is answered with the 'no readable pages' diagnostic and the
\* fallback is not invoked.
C17_LowTextWithPagesFallsBack ==
    /\ (PdfExtracted /\ data.pages > 0 /\ data.length < 100) => FallbackDecided
    /\ (PdfExtracted /\ data.pages = 0) =>
          (pdfPath = NoPath /\ result = PdfNoPages(fileName))

\* 99 characters on 5 pages: the fallback ran on 3 pages and the diagnostic
\* with the structured text came back
C17_Witness ==
    /\ PdfExtracted /\ data.pages = 5 /\ data.length = 99
    /\ pdfPath # NoPath /\ maxPages = 3 /\ pageNum = 4
    /\ result.kind = "pdfLowText"

(* --------------------- local-OCR fallback (C25, C26) ------------------- *)
\* C25 (as claimed): whenever extractFromPDF has called tryOCRExtraction,
\* the temporary PDF written from the buffer exists until tryOCRExtraction
\* has settled.
C25_TempFileOutlivesFallback ==
    (entry = "extractTextFromBuffer"
       /\ pc \in {"tryOCRExtraction", "ocrConvert", "ocrRecognize", "ocrUnlink"}) =>
        /\ pdfPath = tempPath
        /\ pdfPath \in files

\* the pages whose recognized text is not blank
PagesWithText ==
    {n \in 1..Len(pageLog) :
        /\ pageLog[n].outcome = "recognized"
        /\ \E k \in 1..Len(pageLog[n].text) : ~IsWs(pageLog[n].text[k])}

\* C26: tryOCRExtraction goes through pages 1..maxPages in order, maxPages
\* being min(pageCount, 3) when extractFromPDF calls it; a page whose
\* rasterization or recognition fails adds no text and the pages after it
\* are still processed; the text returned holds a `--- Page N ---` marker
\* for exactly the pages that gave non-blank text, in ascending N, each
\* followed by that page's text.
C26_PagesIndependent ==
    /\ pc \in {"ocrConvert", "ocrRecognize", "ocrUnlink"} =>
          /\ pageNum \in 1..(maxPages + 1)
          /\ Len(pageLog) = (IF pc = "ocrUnlink" THEN pageNum ELSE pageNum - 1)
    /\ entry = "extractTextFromBuffer" /\ pageNum > 0 =>
          maxPages = (IF data.pages < 3 THEN data.pages ELSE 3)
    /\ pageNum > 0 =>
          /\ SelectSeq(allText, IsPageMark) = MarksOfPages(PagesWithText, 1)
          /\ \A n \in PagesWithText :
                TextAfterMark(allText, n)
                   = <<"nl">> \o Trim(pageLog[n].text) \o <<"nl", "nl">>
    /\ (pc = "done" /\ pageNum > 0) =>
          /\ Len(pageLog) = maxPages
          /\ entry = "tryOCRExtraction" =>
                /\ ~escaped
                /\ result = OcrText(Trim(allText))

\* page 1 could not be rasterized, page 2 could not be recognized, page 3
\* gave text: the result holds the marker of page 3 only
C26_Witness ==
    /\ entry = "tryOCRExtraction" /\ pc = "done" /\ Len(pageLog) = 3
    /\ pageLog[1].outcome = "convertFailed"
    /\ pageLog[2].outcome = "recognizeFailed"
    /\ PagesWithText = {3}
    /\ result = OcrText(<<"P3", "nl", "a", "a", "a", "a">>)

(* ------------------- the saved File record (C27) ----------------------- *)
\* C27 (as claimed): in uploadMaterial for a handwritten document the upload
\* completes in every case; the File record is saved with extractionStatus
\* 'failed' and a non-null extractionError whenever the OCR extraction
\* failed (transport, quota or processing error of the remote OCR), and with
\* 'success' only when the extraction produced document text.
C27_FailedExtractionIsRecorded ==
    fileRecord # NoFile =>
        /\ fileRecord.saved
        /\ (Len(requests) = 1 /\ requests[1].outcome # "ok") =>
              /\ fileRecord.extractionStatus = "failed"
              /\ ~fileRecord.extractionError.isNull
        /\ fileRecord.extractionStatus = "success" =>
              fileRecord.extractedText.kind \in {"ocrText", "merged"}

(* ============ extractFromPDF after the structured extraction =========== *)
RECURSIVE Digits(_)
\* the length of String(n)
Digits(n) == IF n < 10 THEN 1 ELSE 1 + Digits(n \div 10)

\* result.length
LengthOf(r) ==
    CASE r.kind = "ocrResult" ->
           261 + 2 * Len(r.fileName) + Digits(r.pages)
             + Digits(JsLength(r.text)) + JsLength(r.text)
      [] r.kind = "pdfLowText" ->
           464 + 2 * Len(r.fileName) + Digits(r.pages)
             + Digits(r.length)
             + (IF r.length = 0 THEN 23 ELSE Min(r.length, 200))
      [] r.kind = "finalText" -> JsLength(r.text)

InitPdfTail ==
    \* the text of lines 271-286: every item followed by a space, "\n\n" after
    \* every page but the last; "w15" and "w98" are words of 15 and 98 letters
    /\ extractedText \in
         { <<>>, <<"a", " ">>, <<"w15", " ">>, <<"w98", " ">>, <<"w98", "a", " ">>,
           <<"a", " ", "nl", "nl">>, <<"w98", " ", "nl", "nl", "a", " ">> }
    \* more pages than page breaks
    /\ pageCount \in
         (Len(SelectSeq(extractedText, LAMBDA tok : tok = "nl")) \div 2 + 1)..MaxPages
    \* data.meta.info.Title; <<>> when it is missing or equal to fileName
    /\ title \in {<<>>, <<"a", "a">>}
    \* tryOCRExtraction settles with a rejection or with allText.trim()
    /\ IF JsLength(extractedText) < LowTextThreshold
         THEN ocrOutcome \in
                { Throw(Err(<<"Cannot find package 'pdf2pic'">>)),
                  Ret(<<>>),
                  Ret(<<"P1", "nl", "a">>),
                  Ret(<<"P1", "nl", "a", "nl", "nl", "P2", "nl", "w98", "a", "a">>) }
         ELSE ocrOutcome = NotParsed
    /\ finalText = NoVal
    /\ InitLocals
    /\ entry = "none" /\ documentType = "typed" /\ mimeType = PDF
    /\ fileName \in {"notes.pdf", "a.pdf"} /\ buffer = NullBuffer /\ files = {}
    /\ pdfPath = NoPath /\ maxPages = 0 /\ pc = "idle"
    /\ Idle({"parse", "norm", "conc", "upload", "star"})

applyPdfTail ==
    /\ finalText = NoVal
    /\ finalText' =
         IF JsLength(extractedText) < LowTextThreshold
           THEN lowTextResult(ocrOutcome, JsLength(extractedText), fileName, pageCount)
           ELSE FinalText(title, normalizePDF(extractedText))
    /\ UNCHANGED <<extractedText, pageCount, title, ocrOutcome, callVars, uploadVars, starVars, parseVars,
                   normVars, concVars>>

SpecPdfTail == InitPdfTail /\ [][applyPdfTail]_vars

\* C18 (as stated): for every PDF and every outcome of the fallback, the
\* result extractFromPDF adopts is at least as long as the raw text of the
\* structured extraction.
C18_ResultNeverShorter ==
    finalText # NoVal => LengthOf(finalText) >= JsLength(extractedText)

\* C18 (amended): whenever the fallback was invoked (at least one page,
\* fewer than 100 characters), whatever it settles with, the result is at
\* least as long as the raw text; a text of 100 characters or more is
\* returned normalized and is then never longer than the raw text plus the
\* title line.
C18_FallbackNeverShorter ==
    finalText # NoVal =>
        IF ocrOutcome # NotParsed
          THEN /\ JsLength(extractedText) < 100
               /\ LengthOf(finalText) >= JsLength(extractedText)
          ELSE /\ JsLength(extractedText) >= 100
               /\ finalText.kind = "finalText"
               /\ LengthOf(finalText)
                    <= JsLength(extractedText)
                         + (IF title # <<>> THEN 16 + JsLength(title) + 2 ELSE 0)

\* the OCR text (16 characters) is adopted over a structured text of 2
C18_Witness ==
    /\ extractedText = <<"a", " ">>
    /\ ocrOutcome = Ret(<<"P1", "nl", "a">>)
    /\ finalText = formatOCRResult(<<"P1", "nl", "a">>, fileName, pageCount)

(* ============== two calls sharing os.tmpdir() (concurrency) ============ *)
MaxClock == 1            \* Date.now() advances at most this often
MaxConcPages == 1        \* pages of the PDFs of the two calls

Calls == {1, 2}
\* what a call holds: its arguments (kind of extractor, fileName, whether
\* its own document has little text) and its locals
Call(kind, name, low) ==
    [kind |-> kind, fileName |-> name, low |-> low, pc |-> "start",
     tempPath |-> NoPath, data |-> "none", pageNum |-> 0, imagePath |-> NoPath,
     allText |-> FALSE, read |-> {}, outcome |-> "none"]

OnDisk(p) == \E f \in disk : f.path = p
OwnerOf(p) == (CHOOSE f \in disk : f.path = p).owner
\* fs.promises.writeFile(p, buffer) by call c: creates or overwrites
writeFile(d, p, c) == {f \in d : f.path # p} \cup {[path |-> p, owner |-> c]}
\* the access, when the file is there and another call wrote it
Foreign(c, p, op) ==
    IF OnDisk(p) /\ OwnerOf(p) # c THEN {[by |-> c, path |-> p, op |-> op]} ELSE {}

InitConc ==
    /\ calls \in [Calls -> {Call(k, f, low) : k \in {"pdf", "powerpoint"},
                                              f \in FileNames, low \in BOOLEAN}]
    /\ disk = {} /\ clock = 0 /\ touched = {}
    /\ Idle({"call", "parse", "norm", "tail", "upload", "star"})

\* Date.now() moves on
Tick ==
    /\ clock < MaxClock
    /\ clock' = clock + 1
    /\ UNCHANGED <<calls, disk, touched, callVars, uploadVars, starVars, parseVars, normVars, tailVars>>

\* const tempPath = path.join(os.tmpdir(), `temp-${Date.now()}-${fileName}`)
concTempPath(c) ==
    /\ calls[c].pc = "start"
    /\ calls' = [calls EXCEPT ![c].tempPath = TempPathOf(clock, calls[c].fileName),
                              ![c].pc = "writeFile"]
    /\ UNCHANGED <<disk, clock, touched, callVars, uploadVars, starVars, parseVars, normVars, tailVars>>

\* await fs.promises.writeFile(tempPath, buffer)
concWriteFile(c) ==
    /\ calls[c].pc = "writeFile"
    /\ touched' = touched \cup Foreign(c, calls[c].tempPath, "write")
    /\ disk' = writeFile(disk, calls[c].tempPath, c)
    /\ calls' = [calls EXCEPT ![c].pc = "extract"]
    /\ UNCHANGED <<clock, callVars, uploadVars, starVars, parseVars, normVars, tailVars>>

\* pdfExtract.extract(tempPath, ...) / officeParser.parseOffice(tempPath, ...)
concExtract(c) ==
    /\ calls[c].pc = "extract"
    /\ LET p == calls[c].tempPath
       IN  /\ touched' = touched \cup Foreign(c, p, "read")
           /\ calls' = [calls EXCEPT
                  ![c].data = IF ~OnDisk(p) THEN "error"
                              ELSE IF calls[OwnerOf(p)].low THEN "lowText" ELSE "text",
                  ![c].read = IF OnDisk(p) THEN @ \cup {OwnerOf(p)} ELSE @,
                  ![c].pc = "unlink"]
    /\ UNCHANGED <<disk, clock, callVars, uploadVars, starVars, parseVars, normVars, tailVars>>

\* unlink(tempPath) on either path, then the return or the local-OCR fallback
concUnlink(c) ==
    /\ calls[c].pc = "unlink"
    /\ touched' = touched \cup Foreign(c, calls[c].tempPath, "delete")
    /\ disk' = {f \in disk : f.path # calls[c].tempPath}
    /\ calls' = [calls EXCEPT
           ![c].pc = IF calls[c].kind = "pdf" /\ calls[c].data = "lowText"
                       THEN "ocrConvert" ELSE "done",
           ![c].pageNum = IF calls[c].kind = "pdf" /\ calls[c].data = "lowText"
                            THEN 1 ELSE @,
           ![c].outcome = IF calls[c].kind = "pdf" /\ calls[c].data = "lowText"
                            THEN @ ELSE calls[c].data]
    /\ UNCHANGED <<clock, callVars, uploadVars, starVars, parseVars, normVars, tailVars>>

\* convert(pageNum): pdf2pic reads pdfPath and writes page.N.png
concConvert(c) ==
    /\ calls[c].pc = "ocrConvert"
    /\ calls[c].pageNum <= Min(MaxConcPages, LocalOCRMaxPages)
    /\ LET p == calls[c].tempPath
           img == ImagePathOf(calls[c].pageNum)
       IN  IF OnDisk(p)
             THEN /\ touched' = touched \cup Foreign(c, p, "read")
                                        \cup Foreign(c, img, "write")
                  /\ disk' = writeFile(disk, img, c)
                  /\ calls' = [calls EXCEPT ![c].read = @ \cup {OwnerOf(p)},
                                            ![c].imagePath = img,
                                            ![c].pc = "ocrRecognize"]
             ELSE /\ calls' = [calls EXCEPT ![c].pageNum = @ + 1]
                  /\ UNCHANGED <<disk, touched>>
    /\ UNCHANGED <<clock, callVars, uploadVars, starVars, parseVars, normVars, tailVars>>

\* Tesseract.recognize(imagePath) and the append to allText
concRecognize(c) ==
    /\ calls[c].pc = "ocrRecognize"
    /\ LET img == calls[c].imagePath
       IN  /\ touched' = touched \cup Foreign(c, img, "read")
           /\ calls' = IF OnDisk(img)
                         THEN [calls EXCEPT ![c].read = @ \cup {OwnerOf(img)},
                                            ![c].allText = TRUE,
                                            ![c].pc = "ocrUnlink"]
                         ELSE [calls EXCEPT ![c].pageNum = @ + 1,
                                            ![c].pc = "ocrConvert"]
    /\ UNCHANGED <<disk, clock, callVars, uploadVars, starVars, parseVars, normVars, tailVars>>

\* fs.promises.unlink(imagePath).catch(() => {})
concUnlinkImage(c) ==
    /\ calls[c].pc = "ocrUnlink"
    /\ touched' = touched \cup Foreign(c, calls[c].imagePath, "delete")
    /\ disk' = {f \in disk : f.path # calls[c].imagePath}
    /\ calls' = [calls EXCEPT ![c].pageNum = @ + 1, ![c].pc = "ocrConvert"]
    /\ UNCHANGED <<clock, callVars, uploadVars, starVars, parseVars, normVars, tailVars>>

\* return allText.trim() and the choice of lines 296-323
concReturn(c) ==
    /\ calls[c].pc = "ocrConvert"
    /\ ~(calls[c].pageNum <= Min(MaxConcPages, LocalOCRMaxPages))
    /\ calls' = [calls EXCEPT ![c].pc = "done",
                   ![c].outcome = IF calls[c].allText THEN "ocrResult" ELSE "lowText"]
    /\ UNCHANGED <<disk, clock, touched, callVars, uploadVars, starVars, parseVars, normVars, tailVars>>

NextConc ==
    \/ Tick
    \/ \E c \in Calls : concTempPath(c)
    \/ \E c \in Calls : concWriteFile(c)
    \/ \E c \in Calls : concExtract(c)
    \/ \E c \in Calls : concUnlink(c)
    \/ \E c \in Calls : concConvert(c)
    \/ \E c \in Calls : concRecognize(c)
    \/ \E c \in Calls : concUnlinkImage(c)
    \/ \E c \in Calls : concReturn(c)

SpecConc == InitConc /\ [][NextConc]_vars

\* C11: two extraction calls interleaved at their suspension points never
\* write, read or delete a temporary file the other call created, and the
\* result of each depends only on its own input buffer.
C11_NoSharedTempFiles ==
    /\ touched = {}
    /\ \A c \in Calls :
         calls[c].pc = "done" =>
            /\ calls[c].read \subseteq {c}
            \* alone, the call returns its text or the low-text diagnostic
            /\ calls[c].outcome = (IF calls[c].low THEN "lowText" ELSE "text")

(* ============ uploadMaterial requests of one user (C29) ================ *)
MaxUploads == 3          \* uploadMaterial requests under way at once

UPLOAD_LIMIT == 5

InitUpload ==
    /\ approvedFiles \in 0..UPLOAD_LIMIT
    /\ uploads = [r \in 1..MaxUploads |-> [pc |-> "start", actualFileCount |-> 0]]
    /\ Idle({"call", "parse", "norm", "tail", "conc", "star"})

\* File.countDocuments({uploadedBy, 'moderation.approved': true}) and the
\* test against UPLOAD_LIMIT
uploadLimitCheck(r) ==
    /\ uploads[r].pc = "start"
    /\ uploads' = [uploads EXCEPT
           ![r].actualFileCount = approvedFiles,
           ![r].pc = IF approvedFiles >= UPLOAD_LIMIT THEN "limitReached"
                                                     ELSE "uploadFile"]
    /\ UNCHANGED <<approvedFiles, starVars, callVars, parseVars, normVars, concVars,
                   tailVars>>

\* uploadFile(req.file, categoryFolder) and the text extraction; a rejection
\* ends the request in the outer catch (500)
uploadFile(r) ==
    /\ uploads[r].pc = "uploadFile"
    /\ \E next \in {"save", "failed"} : uploads' = [uploads EXCEPT ![r].pc = next]
    /\ UNCHANGED <<approvedFiles, starVars, callVars, parseVars, normVars, concVars,
                   tailVars>>

\* new File({..., moderation: {approved: true}}).save() and the 201 response
newFileSave(r) ==
    /\ uploads[r].pc = "save"
    /\ approvedFiles' = approvedFiles + 1
    /\ uploads' = [uploads EXCEPT ![r].pc = "created"]
    /\ UNCHANGED <<starVars, callVars, parseVars, normVars, concVars, tailVars>>

SpecUpload ==
    InitUpload
    /\ [][\E r \in 1..MaxUploads : \/ uploadLimitCheck(r)
                                   \/ uploadFile(r)
                                   \/ newFileSave(r)]_vars

\* C29 (as claimed): after any interleaving of uploadMaterial requests of
\* one user, the user never has more than 5 approved files: a request that
\* saves a file did so while the user owned fewer than 5, and a request is
\* answered 'Upload limit reached' exactly when it counted 5 or more.
C29_UploadLimitHolds ==
    /\ approvedFiles <= 5
    /\ \A r \in 1..MaxUploads :
         uploads[r].pc = "limitReached" <=> uploads[r].actualFileCount >= 5

(* ============== addStar / removeStar on one file (C30) ================= *)
MaxStarRequests == 3     \* addStar / removeStar requests under way at once

InitStar ==
    /\ stars = {} /\ starCount = 0
    /\ starring \in [1..MaxStarRequests ->
                       {[op |-> o, userId |-> u, pc |-> "start"] :
                           o \in {"addStar", "removeStar"}, u \in {"u1", "u2"}}]
    /\ Idle({"call", "parse", "norm", "tail", "conc", "upload"})

\* addStar up to its first write: File.findById (the file exists),
\* User.findById and user.stars.includes(fileId)
addStar(r) ==
    /\ starring[r].op = "addStar" /\ starring[r].pc = "start"
    /\ starring' = [starring EXCEPT
           ![r].pc = IF starring[r].userId \in stars THEN "alreadyStarred"
                                                     ELSE "addToSet"]
    /\ UNCHANGED <<stars, starCount, uploadVars, callVars, parseVars, normVars,
                   concVars, tailVars>>

\* User.findByIdAndUpdate(userId, {$addToSet: {stars: fileId}})
addToSet(r) ==
    /\ starring[r].pc = "addToSet"
    /\ stars' = stars \cup {starring[r].userId}
    /\ starring' = [starring EXCEPT ![r].pc = "inc"]
    /\ UNCHANGED <<starCount, uploadVars, callVars, parseVars, normVars, concVars,
                   tailVars>>

\* removeStar: User.findByIdAndUpdate(userId, {$pull: {stars: fileId}})
removeStar(r) ==
    /\ starring[r].op = "removeStar" /\ starring[r].pc = "start"
    /\ stars' = stars \ {starring[r].userId}
    /\ starring' = [starring EXCEPT ![r].pc = "inc"]
    /\ UNCHANGED <<starCount, uploadVars, callVars, parseVars, normVars, concVars,
                   tailVars>>

\* File.findByIdAndUpdate(fileId, {$inc: {'stats.starCount': +1 or -1}}) and
\* the response
incStarCount(r) ==
    /\ starring[r].pc = "inc"
    /\ starCount' = starCount + (IF starring[r].op = "addStar" THEN 1 ELSE -1)
    /\ starring' = [starring EXCEPT ![r].pc = "done"]
    /\ UNCHANGED <<stars, uploadVars, callVars, parseVars, normVars, concVars,
                   tailVars>>

SpecStar ==
    InitStar
    /\ [][\E r \in 1..MaxStarRequests : \/ addStar(r)
                                        \/ addToSet(r)
                                        \/ removeStar(r)
                                        \/ incStarCount(r)]_vars

\* C30 (as claimed): a file's stats.starCount is never negative, and once
\* every addStar and removeStar request has been answered it equals the
\* number of users whose stars list holds the file.
C30_StarCountMatchesStars ==
    /\ starCount >= 0
    /\ (\A r \in 1..MaxStarRequests : starring[r].pc \in {"done", "alreadyStarred"}) =>
          starCount = Cardinality(stars)
====
